---- MODULE Spec2Model ----
(***************************************************************************)
(* Indexing pipeline of the IPL search engine: BarrelManager (buffer,      *)
(* barrel files, merge-on-flush, lookups), InvertedIndexBuilder,           *)
(* LexiconBuilder and ForwardIndexBuilder.                                 *)
(*                                                                         *)
(* A barrel file is modelled by what open()/pickle see of it: it is        *)
(* missing, it exists but pickle.load raises on it ("corrupt"), or it      *)
(* holds a dict word_id -> list of doc_ids ("ok").                         *)
(***************************************************************************)
EXTENDS Integers, Sequences, FiniteSets, TLC

(* ------------------------------ bounds -------------------------------- *)

\* postings the buffer may hold before the model stops adding
MaxBuffered == 2

\* tokens a document collection may hold in all
MaxTokens == 2

\* next_word_id up to which the model keeps building lexicons
MaxNextId == 4

\* BarrelManager(output_dir, barrel_size=2): two word ids per barrel
barrel_size == 2

\* word ids over two barrels, and the documents they occur in
WordIds == 0 .. 2
DocIds == 0 .. 1
BarrelIds == {w \div barrel_size : w \in WordIds}

(* ------------------------------ helpers ------------------------------- *)

Range(s) == {s[i] : i \in DOMAIN s}

EmptyMap == [x \in {} |-> <<>>]

Min(S) == CHOOSE x \in S : \A y \in S : x <= y

\* list(set(xs)) on small non-negative ints: CPython stores an int at slot
\* hash(i) mod table size = i and iterates the slots in order, so the list
\* comes out ascending and without repetition.
RECURSIVE ListOfSet(_)
ListOfSet(S) == IF S = {} THEN <<>> ELSE <<Min(S)>> \o ListOfSet(S \ {Min(S)})

(* --------------------------- BarrelManager ---------------------------- *)

VARIABLES
  barrels_buffer,  \* dict barrel_id -> dict word_id -> list, in insertion order
  files,           \* output_dir: barrel_id -> barrel_<id>.pkl
  op,              \* the operation that ran last
  raised,          \* whether that operation ended in an exception
  ret,             \* what it returned (None for add/flush/build)
  fault,           \* the write failure the environment produced during it
  arg,             \* the barrel_id or word_id it was given, <<word_id, doc_id>> for add
  buffered,        \* the buffer as that operation found it
  before,          \* the barrel files as that operation found them
  forward_index,   \* the forward index built last, or given to the last build
  phase,           \* completed non-empty flushes: 0, 1, 2; 3 after more or a failure
  pass1,           \* the postings of the first of them
  goal             \* since a flush failed after writing a barrel and until the next
                   \* add: the files that flush was to leave

VARIABLES
  lexicon,         \* LexiconBuilder.lexicon: word -> word_id
  next_word_id,    \* LexiconBuilder.next_word_id
  documents,       \* the documents given to the last build_from_documents
  fresh,           \* whether the LexiconBuilder was newly constructed before it
  lop              \* the operation of the index builders that ran last

VARIABLES
  build_pc,        \* build_from_forward_index: "idle", "running", "returned", "raised"
  build_fi,        \* the forward index it was given
  build_calls,     \* the calls on the BarrelManager it has still to make
  trace            \* the calls it has made, in order

VARIABLES
  mgr,             \* two BarrelManagers over the one output_dir: of each its
                   \* buffer, where its flush_barrels stands (pc, and the i-th
                   \* buffered barrel), and the current_data it has merged
  flushed,         \* the postings of the flushes that have returned
  stable           \* each barrel file as the last completed pickle.dump left it,
                   \* missing while there was none

barrel_vars == <<barrels_buffer, files, op, arg, raised, ret, fault, buffered,
                 before, phase, pass1, goal>>

index_vars == <<lexicon, next_word_id, documents, fresh, lop>>

build_vars == <<build_pc, build_fi, build_calls, trace>>

shared_vars == <<mgr, flushed, stable>>

step_vars == <<build_vars, shared_vars>>

vars == <<barrel_vars, forward_index, index_vars, step_vars>>

None == [none |-> TRUE]

Missing == [kind |-> "missing", data |-> EmptyMap]
Corrupt == [kind |-> "corrupt", data |-> EmptyMap]
Ok(d) == [kind |-> "ok", data |-> d]

NoFault == [barrel |-> -1, mode |-> "none"]

NoFiles == [b \in BarrelIds |-> Missing]

NoGoal == [set |-> FALSE, files |-> NoFiles]

\* the barrel chosen by the remainder where the code takes the quotient
get_barrel_id_mod(word_id) == word_id % barrel_size

\* the barrel id rounded up where the code rounds down
get_barrel_id_ceil(word_id) == (word_id + barrel_size - 1) \div barrel_size

\* line 44: word_id // self.barrel_size
get_barrel_id(word_id) == word_id \div barrel_size

\* position of barrel_id among the buffer's keys, 0 when it is no key
BufferIndex(buf, barrel_id) ==
  IF \E i \in DOMAIN buf : buf[i].barrel_id = barrel_id
  THEN CHOOSE i \in DOMAIN buf : buf[i].barrel_id = barrel_id
  ELSE 0

BufferKeys(buf) == {buf[i].barrel_id : i \in DOMAIN buf}

\* add_to_barrel assigning [doc_id] where the code appends
add_to_barrel_assign(buf, word_id, doc_id) ==
  LET barrel_id == word_id \div barrel_size
      i == BufferIndex(buf, barrel_id)
  IN IF i = 0
     THEN Append(buf, [barrel_id |-> barrel_id, new_data |-> (word_id :> <<doc_id>>)])
     ELSE LET nd == buf[i].new_data
          IN [buf EXCEPT ![i].new_data =
                IF word_id \in DOMAIN nd
                THEN [nd EXCEPT ![word_id] = <<doc_id>>]
                ELSE nd @@ (word_id :> <<doc_id>>)]

\* add_to_barrel leaving out a doc_id the entry already holds
add_to_barrel_dedup(buf, word_id, doc_id) ==
  LET barrel_id == word_id \div barrel_size
      i == BufferIndex(buf, barrel_id)
  IN IF i = 0
     THEN Append(buf, [barrel_id |-> barrel_id, new_data |-> (word_id :> <<doc_id>>)])
     ELSE LET nd == buf[i].new_data
          IN [buf EXCEPT ![i].new_data =
                IF word_id \in DOMAIN nd
                THEN [nd EXCEPT ![word_id] =
                        IF doc_id \in Range(@) THEN @ ELSE Append(@, doc_id)]
                ELSE nd @@ (word_id :> <<doc_id>>)]

\* self.barrels_buffer[barrel_id][word_id].append(doc_id) on the defaultdicts
add_to_barrel(buf, word_id, doc_id) ==
  LET barrel_id == get_barrel_id(word_id)
      i == BufferIndex(buf, barrel_id)
  IN IF i = 0
     THEN Append(buf, [barrel_id |-> barrel_id, new_data |-> (word_id :> <<doc_id>>)])
     ELSE LET nd == buf[i].new_data
          IN [buf EXCEPT ![i].new_data =
                IF word_id \in DOMAIN nd
                THEN [nd EXCEPT ![word_id] = Append(@, doc_id)]
                ELSE nd @@ (word_id :> <<doc_id>>)]

\* open(barrel_path, 'rb') + pickle.load: the dict, or an exception
PickleLoad(file) ==
  IF file.kind = "ok" THEN [exc |-> FALSE, value |-> file.data]
  ELSE [exc |-> TRUE, value |-> EmptyMap]

\* the loading of flush_barrels without its try/except
LoadExistingUncaught(file) ==
  IF file.kind = "missing" THEN [exc |-> FALSE, value |-> EmptyMap]
  ELSE PickleLoad(file)

\* flush_barrels, lines 67-74: current_data = {} unless the file loads; the
\* exception of pickle.load is caught
LoadExisting(file) ==
  IF file.kind = "missing" THEN [exc |-> FALSE, value |-> EmptyMap]
  ELSE LET r == PickleLoad(file)
       IN IF r.exc THEN [exc |-> FALSE, value |-> EmptyMap] ELSE r

\* the merge writing the new doc_ids over the stored ones
MergeOverwrite(current_data, new_data) ==
  [word_id \in DOMAIN current_data \cup DOMAIN new_data |->
     IF word_id \in DOMAIN new_data
     THEN ListOfSet(Range(new_data[word_id]))
     ELSE current_data[word_id]]

\* flush_barrels, lines 77-82
MergeNewData(current_data, new_data) ==
  [word_id \in DOMAIN current_data \cup DOMAIN new_data |->
     IF word_id \in DOMAIN new_data
     THEN IF word_id \in DOMAIN current_data
          THEN ListOfSet(Range(current_data[word_id] \o new_data[word_id]))
          ELSE ListOfSet(Range(new_data[word_id]))
     ELSE current_data[word_id]]

\* open(barrel_path, 'wb') + pickle.dump: the file afterwards. A failing open
\* leaves the file as it was; a failing dump leaves the truncated file.
WriteBarrel(file, data, mode) ==
  CASE mode = "none" -> Ok(data)
    [] mode = "open" -> file
    [] mode = "dump" -> Corrupt

\* the loop of flush_barrels from the i-th buffered barrel on; an exception
\* (of a failed write, or one the loading did not catch) leaves the loop
RECURSIVE FlushLoop(_, _, _, _)
FlushLoop(fs, buf, i, flt) ==
  IF i > Len(buf) THEN [files |-> fs, raised |-> FALSE]
  ELSE LET barrel_id == buf[i].barrel_id
           current_data == LoadExisting(fs[barrel_id])
           merged == MergeNewData(current_data.value, buf[i].new_data)
       IN IF current_data.exc THEN [files |-> fs, raised |-> TRUE]
          ELSE IF flt.barrel = barrel_id
               THEN [files |-> [fs EXCEPT ![barrel_id] =
                                  WriteBarrel(@, merged, flt.mode)],
                     raised |-> TRUE]
               ELSE FlushLoop([fs EXCEPT ![barrel_id] = WriteBarrel(@, merged, "none")],
                              buf, i + 1, flt)

\* a flush that rewrites the file of every barrel, buffered or not
flush_barrels_every(fs, buf, flt) ==
  LET r == FlushLoop(fs, buf, 1, flt)
  IN [files |-> [b \in BarrelIds |->
                   IF r.raised \/ b \in BufferKeys(buf) THEN r.files[b]
                   ELSE Ok(LoadExisting(fs[b]).value)],
      buffer |-> IF r.raised THEN buf ELSE <<>>,
      raised |-> r.raised]

\* a flush that clears the buffer in a finally clause
flush_barrels_finally(fs, buf, flt) ==
  LET r == FlushLoop(fs, buf, 1, flt)
  IN [files |-> r.files, buffer |-> <<>>, raised |-> r.raised]

\* flush_barrels: the files and the buffer afterwards, and whether it raised
flush_barrels(fs, buf, flt) ==
  LET r == FlushLoop(fs, buf, 1, flt)
  IN [files |-> r.files,
      buffer |-> IF r.raised THEN buf ELSE <<>>,
      raised |-> r.raised]

\* load_barrel without its try/except
load_barrel_uncaught(fs, barrel_id) ==
  IF fs[barrel_id].kind = "missing" THEN [exc |-> FALSE, value |-> EmptyMap]
  ELSE PickleLoad(fs[barrel_id])

load_barrel(fs, barrel_id) ==
  IF fs[barrel_id].kind = "missing" THEN [exc |-> FALSE, value |-> EmptyMap]
  ELSE LET r == PickleLoad(fs[barrel_id])
       IN IF r.exc THEN [exc |-> FALSE, value |-> EmptyMap] ELSE r

get_documents_for_word(fs, word_id) ==
  LET barrel_data == load_barrel(fs, get_barrel_id(word_id))
  IN IF barrel_data.exc THEN [exc |-> TRUE, value |-> <<>>]
     ELSE [exc |-> FALSE,
           value |-> IF word_id \in DOMAIN barrel_data.value
                     THEN barrel_data.value[word_id] ELSE <<>>]

\* the (word_id, doc_id) pairs a buffer holds
Postings(buf) ==
  UNION {UNION {{<<w, d>> : d \in Range(buf[i].new_data[w])} :
                  w \in DOMAIN buf[i].new_data} : i \in DOMAIN buf}

RECURSIVE SumLen(_, _)
SumLen(f, S) ==
  IF S = {} THEN 0
  ELSE LET x == CHOOSE y \in S : TRUE IN Len(f[x]) + SumLen(f, S \ {x})

\* number of doc_ids a buffer holds, repetitions counted
RECURSIVE BufferedCount(_)
BufferedCount(buf) ==
  IF buf = <<>> THEN 0
  ELSE SumLen(Head(buf).new_data, DOMAIN Head(buf).new_data) + BufferedCount(Tail(buf))

(* ------------------------ InvertedIndexBuilder ------------------------ *)

\* a forward index is a dict doc_id -> list of word_ids, kept here as the
\* sequence of its items in iteration order
RECURSIVE TotalWords(_)
TotalWords(fi) ==
  IF fi = <<>> THEN 0 ELSE Len(Head(fi).word_ids) + TotalWords(Tail(fi))

WordLists(n) == UNION {[1 .. k -> WordIds] : k \in 0 .. n}

\* the forward indexes of at most n word occurrences
ForwardIndexes(n) ==
  {fi \in UNION {[1 .. k -> [doc_id : DocIds, word_ids : WordLists(n)]] :
                   k \in 0 .. Cardinality(DocIds)} :
     /\ \A i, j \in DOMAIN fi : i # j => fi[i].doc_id # fi[j].doc_id
     /\ TotalWords(fi) <= n}

\* the inner loop of build_from_forward_index over one document
RECURSIVE AddWords(_, _, _)
AddWords(buf, word_ids, doc_id) ==
  IF word_ids = <<>> THEN buf
  ELSE AddWords(add_to_barrel(buf, Head(word_ids), doc_id), Tail(word_ids), doc_id)

\* the outer loop of build_from_forward_index
RECURSIVE AddDocuments(_, _)
AddDocuments(buf, fi) ==
  IF fi = <<>> THEN buf
  ELSE AddDocuments(AddWords(buf, Head(fi).word_ids, Head(fi).doc_id), Tail(fi))

build_from_forward_index(fs, buf, fi, flt) ==
  flush_barrels(fs, AddDocuments(buf, fi), flt)

\* the same method call by call: the calls it makes on the BarrelManager

AddCall(word_id, doc_id) == [call |-> "add", word_id |-> word_id, doc_id |-> doc_id]

FlushCall == [call |-> "flush", word_id |-> -1, doc_id |-> -1]

\* the inner loop, line 39-41: one add_to_barrel for each word_id of the list
RECURSIVE WordCalls(_, _)
WordCalls(word_ids, doc_id) ==
  IF word_ids = <<>> THEN <<>>
  ELSE <<AddCall(Head(word_ids), doc_id)>> \o WordCalls(Tail(word_ids), doc_id)

\* the loops with the flush of line 48 in place after every document
RECURSIVE BuildCallsPeriodic(_)
BuildCallsPeriodic(fi) ==
  IF fi = <<>> THEN <<FlushCall>>
  ELSE WordCalls(Head(fi).word_ids, Head(fi).doc_id) \o <<FlushCall>>
       \o BuildCallsPeriodic(Tail(fi))

\* lines 38-51: the adds of every document in turn, then the final flush
RECURSIVE BuildCalls(_)
BuildCalls(fi) ==
  IF fi = <<>> THEN <<FlushCall>>
  ELSE WordCalls(Head(fi).word_ids, Head(fi).doc_id) \o BuildCalls(Tail(fi))

(* ------------------------------ actions ------------------------------- *)

\* the writes the environment can make fail during a flush of buf
Faults(buf) ==
  {NoFault} \cup {[barrel |-> b, mode |-> m] : b \in BufferKeys(buf), m \in {"open", "dump"}}

\* bookkeeping of the flush passes: 0, 1, 2 completed passes, 3 otherwise
PhaseAfter(buf, r) ==
  IF r.raised THEN 3
  ELSE IF buf = <<>> THEN phase
  ELSE IF phase < 2 THEN phase + 1 ELSE 3

\* bookkeeping of a retry: a flush of buf over the files fs that fails at a
\* barrel after the first has written the barrels before it
GoalAfter(fs, buf, flt, r) ==
  IF r.raised /\ ~goal.set /\ BufferIndex(buf, flt.barrel) > 1
  THEN [set |-> TRUE, files |-> flush_barrels(fs, buf, NoFault).files]
  ELSE goal

Pass1After(buf, r) ==
  IF r.raised THEN {}
  ELSE IF buf = <<>> THEN pass1
  ELSE IF phase = 0 THEN Postings(buf)
  ELSE IF phase = 1 THEN pass1 ELSE {}

AddToBarrel(word_id, doc_id) ==
  /\ BufferedCount(barrels_buffer) < MaxBuffered
  /\ barrels_buffer' = add_to_barrel(barrels_buffer, word_id, doc_id)
  /\ op' = "add"
  /\ arg' = <<word_id, doc_id>>
  /\ raised' = FALSE
  /\ ret' = None
  /\ fault' = NoFault
  /\ buffered' = barrels_buffer
  /\ before' = files
  /\ forward_index' = <<>>
  /\ goal' = NoGoal
  /\ UNCHANGED <<files, phase, pass1, index_vars, step_vars>>

\* flush_barrels runs once; r is what it leaves and whether it raised
FlushBarrels(flt) ==
  \E r \in {flush_barrels(files, barrels_buffer, flt)} :
     /\ flt \in Faults(barrels_buffer)
     /\ files' = r.files
     /\ barrels_buffer' = r.buffer
     /\ op' = "flush"
     /\ arg' = -1
     /\ raised' = r.raised
     /\ ret' = None
     /\ fault' = flt
     /\ buffered' = barrels_buffer
     /\ before' = files
     /\ forward_index' = <<>>
     /\ phase' = PhaseAfter(barrels_buffer, r)
     /\ pass1' = Pass1After(barrels_buffer, r)
     /\ goal' = GoalAfter(files, barrels_buffer, flt, r)
     /\ UNCHANGED <<index_vars, step_vars>>

BuildFromForwardIndex(fi, flt) ==
  LET buf == AddDocuments(barrels_buffer, fi)
      r == build_from_forward_index(files, barrels_buffer, fi, flt)
  IN /\ phase = 0
     /\ BufferedCount(barrels_buffer) + TotalWords(fi) <= MaxBuffered
     /\ flt \in Faults(buf)
     /\ files' = r.files
     /\ barrels_buffer' = r.buffer
     /\ op' = "build"
     /\ arg' = -1
     /\ raised' = r.raised
     /\ ret' = None
     /\ fault' = flt
     /\ buffered' = barrels_buffer
     /\ before' = files
     /\ forward_index' = fi
     /\ phase' = PhaseAfter(buf, r)
     /\ pass1' = Pass1After(buf, r)
     /\ UNCHANGED <<goal, index_vars, step_vars>>

LoadBarrel(barrel_id) ==
  LET r == load_barrel(files, barrel_id)
  IN /\ arg' = barrel_id
     /\ op' = "load"
     /\ raised' = r.exc
     /\ ret' = r.value
     /\ fault' = NoFault
     /\ buffered' = barrels_buffer
     /\ before' = files
     /\ forward_index' = <<>>
     /\ UNCHANGED <<barrels_buffer, files, phase, pass1, goal, index_vars, step_vars>>

\* get_barrel_id called on its own, with any word id of the first three barrels
GetBarrelId(word_id) ==
  /\ arg' = word_id
  /\ op' = "barrel_id"
  /\ raised' = FALSE
  /\ ret' = get_barrel_id(word_id)
  /\ fault' = NoFault
  /\ buffered' = barrels_buffer
  /\ before' = files
  /\ forward_index' = <<>>
  /\ UNCHANGED <<barrels_buffer, files, phase, pass1, goal, index_vars, step_vars>>

GetDocumentsForWord(word_id) ==
  LET r == get_documents_for_word(files, word_id)
  IN /\ arg' = word_id
     /\ op' = "get"
     /\ raised' = r.exc
     /\ ret' = r.value
     /\ fault' = NoFault
     /\ buffered' = barrels_buffer
     /\ before' = files
     /\ forward_index' = <<>>
     /\ UNCHANGED <<barrels_buffer, files, phase, pass1, goal, index_vars, step_vars>>

\* build_from_forward_index is entered with the forward index fi
BuildBegin(fi) ==
  /\ build_pc # "running"
  /\ phase = 0
  /\ BufferedCount(barrels_buffer) + TotalWords(fi) <= MaxBuffered
  /\ build_pc' = "running"
  /\ build_fi' = fi
  /\ build_calls' = BuildCalls(fi)
  /\ trace' = <<>>
  /\ op' = "begin"
  /\ arg' = -1
  /\ raised' = FALSE
  /\ ret' = None
  /\ fault' = NoFault
  /\ buffered' = barrels_buffer
  /\ before' = files
  /\ UNCHANGED <<barrels_buffer, files, phase, pass1, goal, forward_index, index_vars,
                 shared_vars>>

\* line 41: its next call is an add_to_barrel
BuildAdd ==
  /\ build_pc = "running"
  /\ build_calls # <<>>
  /\ Head(build_calls).call = "add"
  /\ barrels_buffer' =
       add_to_barrel(barrels_buffer, Head(build_calls).word_id, Head(build_calls).doc_id)
  /\ build_calls' = Tail(build_calls)
  /\ trace' = Append(trace, Head(build_calls))
  /\ op' = "add"
  /\ arg' = <<Head(build_calls).word_id, Head(build_calls).doc_id>>
  /\ buffered' = barrels_buffer
  /\ before' = files
  /\ UNCHANGED <<files, raised, ret, fault, phase, pass1, goal, forward_index, index_vars,
                 build_pc, build_fi, shared_vars>>

\* line 51: its next call is flush_barrels, whose exception ends the method
BuildFlush(flt) ==
  LET r == flush_barrels(files, barrels_buffer, flt)
  IN /\ build_pc = "running"
     /\ build_calls # <<>>
     /\ Head(build_calls).call = "flush"
     /\ flt \in Faults(barrels_buffer)
     /\ files' = r.files
     /\ barrels_buffer' = r.buffer
     /\ build_calls' = IF r.raised THEN <<>> ELSE Tail(build_calls)
     /\ build_pc' = IF r.raised THEN "raised" ELSE "running"
     /\ trace' = Append(trace, Head(build_calls))
     /\ op' = "flush"
     /\ raised' = r.raised
     /\ fault' = flt
     /\ phase' = PhaseAfter(barrels_buffer, r)
     /\ pass1' = Pass1After(barrels_buffer, r)
     /\ UNCHANGED <<arg, ret, buffered, before, goal, forward_index, index_vars, build_fi,
                    shared_vars>>

\* line 52: the method returns
BuildReturn ==
  /\ build_pc = "running"
  /\ build_calls = <<>>
  /\ build_pc' = "returned"
  /\ op' = "build"
  /\ UNCHANGED <<barrels_buffer, files, arg, raised, ret, fault, buffered, before,
                 phase, pass1, goal, forward_index, index_vars, build_fi, build_calls, trace,
                 shared_vars>>

(* ------------- two BarrelManagers over one output directory ----------- *)

Managers == {1, 2}

IdleManager == [buffer |-> <<>>, pc |-> "idle", i |-> 0, current_data |-> EmptyMap]

\* the barrel the flush of manager m is working on
BarrelOf(m) == mgr[m].buffer[mgr[m].i].barrel_id

RECURSIVE SharedCount(_)
SharedCount(M) ==
  IF M = {} THEN 0
  ELSE LET m == CHOOSE x \in M : TRUE
       IN BufferedCount(mgr[m].buffer) + SharedCount(M \ {m})

\* the part of the barrel ghosts a step of one of the two managers leaves alone
mgr_frame == <<barrels_buffer, arg, raised, ret, fault, buffered, before, phase, pass1,
               goal, forward_index, index_vars, build_vars>>

\* add_to_barrel on manager m, while the two managers have been given fewer
\* than MaxBuffered postings in all
MgrAdd(m, word_id, doc_id) ==
  /\ mgr[m].pc = "idle"
  /\ Cardinality(flushed) + SharedCount(Managers) < MaxBuffered
  /\ mgr' = [mgr EXCEPT ![m].buffer = add_to_barrel(@, word_id, doc_id)]
  /\ op' = "add"
  /\ UNCHANGED <<files, flushed, stable, mgr_frame>>

\* flush_barrels on manager m, lines 62-64: the loop over the buffer begins
MgrFlushBegin(m) ==
  /\ mgr[m].pc = "idle"
  /\ mgr' = [mgr EXCEPT ![m].pc = IF mgr[m].buffer = <<>> THEN "clear" ELSE "load",
                         ![m].i = 1]
  /\ op' = "begin"
  /\ UNCHANGED <<files, flushed, stable, mgr_frame>>

\* lines 65-82: the barrel file is loaded and the new data merged into it
MgrFlushLoad(m) ==
  /\ mgr[m].pc = "load"
  /\ mgr' = [mgr EXCEPT ![m].current_data =
                           MergeNewData(LoadExisting(files[BarrelOf(m)]).value,
                                        mgr[m].buffer[mgr[m].i].new_data),
                         ![m].pc = "open"]
  /\ op' = "load_merge"
  /\ UNCHANGED <<files, flushed, stable, mgr_frame>>

\* line 85: open(barrel_path, 'wb') truncates the file; until the dump is
\* written out pickle.load raises on it
MgrFlushOpen(m) ==
  /\ mgr[m].pc = "open"
  /\ files' = [files EXCEPT ![BarrelOf(m)] = Corrupt]
  /\ mgr' = [mgr EXCEPT ![m].pc = "dump"]
  /\ op' = "open"
  /\ UNCHANGED <<flushed, stable, mgr_frame>>

\* line 86 and the end of the with block: the pickle is written from offset
\* 0 and the file closed; pickle.load reads the pickle written last, whatever
\* bytes of another writer follow it
MgrFlushDump(m) ==
  /\ mgr[m].pc = "dump"
  /\ files' = [files EXCEPT ![BarrelOf(m)] = Ok(mgr[m].current_data)]
  /\ stable' = [stable EXCEPT ![BarrelOf(m)] = Ok(mgr[m].current_data)]
  /\ mgr' = [mgr EXCEPT ![m].pc = IF mgr[m].i = Len(mgr[m].buffer) THEN "clear" ELSE "load",
                         ![m].i = @ + 1,
                         ![m].current_data = EmptyMap]
  /\ op' = "dump"
  /\ UNCHANGED <<flushed, mgr_frame>>

\* lines 88-90: the buffer is cleared and flush_barrels returns
MgrFlushClear(m) ==
  /\ mgr[m].pc = "clear"
  /\ flushed' = flushed \cup Postings(mgr[m].buffer)
  /\ mgr' = [mgr EXCEPT ![m] = IdleManager]
  /\ op' = "flush"
  /\ UNCHANGED <<files, stable, mgr_frame>>

(* --------------------------- LexiconBuilder --------------------------- *)

\* words are strings, kept as sequences of code points: "a", "ab", "b"
Vocabulary == {<<1>>, <<1, 2>>, <<2>>}

TokenLists == UNION {[1 .. k -> Vocabulary] : k \in 0 .. MaxTokens}

RECURSIVE TotalTokens(_)
TotalTokens(docs) ==
  IF docs = <<>> THEN 0 ELSE Len(Head(docs).tokens) + TotalTokens(Tail(docs))

\* DocumentProcessor.get_documents(): the i-th row has doc_id i
DocCollections ==
  {docs \in UNION {[1 .. k -> [doc_id : DocIds, tokens : TokenLists]] :
                     k \in 0 .. Cardinality(DocIds)} :
     /\ \A i \in DOMAIN docs : docs[i].doc_id = i - 1
     /\ TotalTokens(docs) <= MaxTokens}

\* str.__lt__: code points compared left to right, a proper prefix is smaller
RECURSIVE StrLess(_, _)
StrLess(a, b) ==
  IF a = <<>> THEN b # <<>>
  ELSE IF b = <<>> THEN FALSE
  ELSE IF Head(a) # Head(b) THEN Head(a) < Head(b)
  ELSE StrLess(Tail(a), Tail(b))

\* sorted(unique_words, reverse=True)
RECURSIVE SortedReverse(_)
SortedReverse(S) ==
  IF S = {} THEN <<>>
  ELSE LET m == CHOOSE x \in S : \A y \in S \ {x} : StrLess(y, x)
       IN <<m>> \o SortedReverse(S \ {m})

\* sorted(unique_words)
RECURSIVE Sorted(_)
Sorted(S) ==
  IF S = {} THEN <<>>
  ELSE LET m == CHOOSE x \in S : \A y \in S \ {x} : StrLess(x, y)
       IN <<m>> \o Sorted(S \ {m})

\* the loop "for doc in documents: unique_words.update(tokens)"
RECURSIVE UniqueWords(_, _)
UniqueWords(docs, unique_words) ==
  IF docs = <<>> THEN unique_words
  ELSE UniqueWords(Tail(docs), unique_words \cup Range(Head(docs).tokens))

\* d[key] = value on a dict
DictSet(d, key, value) ==
  IF key \in DOMAIN d THEN [d EXCEPT ![key] = value] ELSE d @@ (key :> value)

\* the loop "for word in sorted_words: self.lexicon[word] = self.next_word_id"
RECURSIVE AssignIds(_, _, _)
AssignIds(lex, next, sorted_words) ==
  IF sorted_words = <<>> THEN [lexicon |-> lex, next_word_id |-> next]
  ELSE AssignIds(DictSet(lex, Head(sorted_words), next), next + 1, Tail(sorted_words))

\* LexiconBuilder.build_from_documents on a builder holding (lex, next)
lexicon_build_from_documents(lex, next, docs) ==
  AssignIds(lex, next, Sorted(UniqueWords(docs, {})))

\* the lexicons a lexicon.pkl written by an earlier run of main.py can hold
LexiconFiles ==
  {lexicon_build_from_documents(EmptyMap, 0, docs).lexicon : docs \in DocCollections}

LexNew ==
  /\ lexicon' = EmptyMap
  /\ next_word_id' = 0
  /\ documents' = <<>>
  /\ fresh' = TRUE
  /\ lop' = "new"
  /\ UNCHANGED <<barrel_vars, forward_index, step_vars>>

LexBuildFromDocuments(docs) ==
  LET r == lexicon_build_from_documents(lexicon, next_word_id, docs)
  IN /\ r.next_word_id <= MaxNextId
     /\ lexicon' = r.lexicon
     /\ next_word_id' = r.next_word_id
     /\ documents' = docs
     /\ fresh' = (lop = "new")
     /\ lop' = "lexicon"
     /\ UNCHANGED <<barrel_vars, forward_index, step_vars>>

LexLoadFromFile(pickled) ==
  /\ lexicon' = pickled
  /\ next_word_id' = Cardinality(DOMAIN pickled)
  /\ documents' = <<>>
  /\ fresh' = FALSE
  /\ lop' = "load"
  /\ UNCHANGED <<barrel_vars, forward_index, step_vars>>

(* ------------------------- ForwardIndexBuilder ------------------------ *)

\* the word ids of a document collected in a set
WordIdsOfSet(lex, tokens) ==
  ListOfSet({lex[tokens[j]] : j \in {k \in DOMAIN tokens : tokens[k] \in DOMAIN lex}})

\* the loop over the tokens of one document, lines 39-43
RECURSIVE WordIdsOf(_, _)
WordIdsOf(lex, tokens) ==
  IF tokens = <<>> THEN <<>>
  ELSE IF Head(tokens) \in DOMAIN lex
       THEN <<lex[Head(tokens)]>> \o WordIdsOf(lex, Tail(tokens))
       ELSE WordIdsOf(lex, Tail(tokens))

\* ForwardIndexBuilder(lex).build_from_documents(docs): the items of the
\* dict doc_id -> word_ids, in insertion order
RECURSIVE forward_build_from_documents(_, _)
forward_build_from_documents(lex, docs) ==
  IF docs = <<>> THEN <<>>
  ELSE <<[doc_id |-> Head(docs).doc_id, word_ids |-> WordIdsOf(lex, Head(docs).tokens)]>>
       \o forward_build_from_documents(lex, Tail(docs))

FwdBuildFromDocuments(docs) ==
  /\ forward_index' = forward_build_from_documents(lexicon, docs)
  /\ documents' = docs
  /\ lop' = "forward"
  /\ UNCHANGED <<lexicon, next_word_id, fresh, barrel_vars, step_vars>>

(* --------------------------- specifications --------------------------- *)

\* a BarrelManager over a directory whose barrel files, if any, do not load,
\* and a LexiconBuilder, both newly constructed
Init ==
  /\ barrels_buffer = <<>>
  /\ files \in [BarrelIds -> {Missing, Corrupt}]
  /\ op = "init"
  /\ arg = -1
  /\ raised = FALSE
  /\ ret = None
  /\ fault = NoFault
  /\ buffered = <<>>
  /\ before = NoFiles
  /\ forward_index = <<>>
  /\ phase = 0
  /\ pass1 = {}
  /\ goal = NoGoal
  /\ lexicon = EmptyMap
  /\ next_word_id = 0
  /\ documents = <<>>
  /\ fresh = TRUE
  /\ lop = "new"
  /\ build_pc = "idle"
  /\ build_fi = <<>>
  /\ build_calls = <<>>
  /\ trace = <<>>
  /\ mgr = [m \in Managers |-> IdleManager]
  /\ flushed = {}
  /\ stable = NoFiles

\* one BarrelManager: postings are added, flushed and looked up in any order
Next ==
  \/ \E w \in WordIds, d \in DocIds : AddToBarrel(w, d)
  \/ \E flt \in Faults(barrels_buffer) : FlushBarrels(flt)
  \/ \E b \in BarrelIds : LoadBarrel(b)
  \/ \E w \in WordIds : GetDocumentsForWord(w)

Spec == Init /\ [][Next]_vars

\* the pipeline of main.py: the manager's first flush is the one of
\* build_from_forward_index, with or without postings buffered before it
NextBuild ==
  \/ \E w \in WordIds, d \in DocIds : AddToBarrel(w, d)
  \/ /\ phase = 0
     /\ \E fi \in ForwardIndexes(MaxBuffered - BufferedCount(barrels_buffer)) :
          \E flt \in Faults(AddDocuments(barrels_buffer, fi)) :
            BuildFromForwardIndex(fi, flt)
  \/ \E w \in WordIds : GetDocumentsForWord(w)
  \/ \E w \in 0 .. 3 * barrel_size - 1 : GetBarrelId(w)

SpecBuild == Init /\ [][NextBuild]_vars

\* the manager's first flush is the one of build_from_forward_index, taken
\* call by call
NextSteps ==
  \/ \E fi \in ForwardIndexes(MaxBuffered - BufferedCount(barrels_buffer)) : BuildBegin(fi)
  \/ BuildAdd
  \/ \E flt \in Faults(barrels_buffer) : BuildFlush(flt)
  \/ BuildReturn

SpecSteps == Init /\ [][NextSteps]_vars

\* two managers add and flush into the same directory while a third party
\* looks words up; every step of a flush_barrels can be followed by a step of
\* the other manager or by a lookup
NextShared ==
  \/ \E m \in Managers, w \in WordIds, d \in DocIds : MgrAdd(m, w, d)
  \/ \E m \in Managers : MgrFlushBegin(m)
  \/ \E m \in Managers : MgrFlushLoad(m)
  \/ \E m \in Managers : MgrFlushOpen(m)
  \/ \E m \in Managers : MgrFlushDump(m)
  \/ \E m \in Managers : MgrFlushClear(m)
  \/ \E w \in WordIds : GetDocumentsForWord(w)

SpecShared == Init /\ [][NextShared]_vars

\* one LexiconBuilder, rebuilt, reloaded and replaced in any order
NextLexicon ==
  \/ LexNew
  \/ \E docs \in DocCollections : LexBuildFromDocuments(docs)
  \/ \E pickled \in LexiconFiles : LexLoadFromFile(pickled)

SpecLexicon == Init /\ [][NextLexicon]_vars

\* a ForwardIndexBuilder over a lexicon some LexiconBuilder returned
InitForward ==
  /\ barrels_buffer = <<>>
  /\ files = NoFiles
  /\ op = "init"
  /\ arg = -1
  /\ raised = FALSE
  /\ ret = None
  /\ fault = NoFault
  /\ buffered = <<>>
  /\ before = NoFiles
  /\ forward_index = <<>>
  /\ phase = 0
  /\ pass1 = {}
  /\ goal = NoGoal
  /\ lexicon \in LexiconFiles
  /\ next_word_id = Cardinality(DOMAIN lexicon)
  /\ documents = <<>>
  /\ fresh = FALSE
  /\ lop = "load"
  /\ build_pc = "idle"
  /\ build_fi = <<>>
  /\ build_calls = <<>>
  /\ trace = <<>>
  /\ mgr = [m \in Managers |-> IdleManager]
  /\ flushed = {}
  /\ stable = NoFiles

NextForward == \E docs \in DocCollections : FwdBuildFromDocuments(docs)

SpecForward == InitForward /\ [][NextForward]_vars

(* ------------------------------- claims ------------------------------- *)

\* the doc_ids get_documents_for_word returns for word_id over the files fs
DocsOf(fs, word_id) == Range(get_documents_for_word(fs, word_id).value)

\* the doc_ids a buffer holds for word_id
BufferedDocs(buf, word_id) == {d \in DocIds : <<word_id, d>> \in Postings(buf)}

NoDuplicates(s) == \A i, j \in DOMAIN s : i # j => s[i] # s[j]

\* the dict new_data the buffer buf holds for barrel_id
NewDataOf(buf, barrel_id) == buf[BufferIndex(buf, barrel_id)].new_data

\* build_from_forward_index returned, on a manager whose buffer was empty and
\* whose directory held no barrel file
BuildReturnedClean ==
  /\ op = "build"
  /\ ~raised
  /\ buffered = <<>>
  /\ \A b \in BarrelIds : before[b].kind = "missing"

\* C1: after build_from_forward_index returns on a manager with an empty
\* buffer and no barrel files, word_id occurs in forward_index[doc_id] exactly
\* when doc_id is among get_documents_for_word(word_id).
C1_ForwardInvertedConsistency ==
  BuildReturnedClean =>
    \A w \in WordIds, d \in DocIds :
      (\E i \in DOMAIN forward_index :
         forward_index[i].doc_id = d /\ w \in Range(forward_index[i].word_ids))
      <=> d \in DocsOf(files, w)

\* a clean build of two documents that share a word
C1_Witness ==
  /\ BuildReturnedClean
  /\ Len(forward_index) = 2
  /\ \E w \in WordIds : DocsOf(files, w) = DocIds

\* the second of two flush passes just completed
SecondPassDone ==
  /\ op = "flush"
  /\ ~raised
  /\ phase = 2
  /\ buffered # <<>>

\* C2: after postings are added and flushed in two passes, every word's
\* persisted list is the union of the doc_ids of both passes and holds no
\* doc_id twice.
C2_MergeCorrectness ==
  SecondPassDone =>
    \A w \in WordIds :
      /\ DocsOf(files, w) = {d \in DocIds : <<w, d>> \in pass1} \cup BufferedDocs(buffered, w)
      /\ NoDuplicates(get_documents_for_word(files, w).value)

\* a word flushed with doc 0 in the first pass and with docs 0 and 1 in the second
C2_Witness ==
  /\ SecondPassDone
  /\ \E w \in WordIds :
       /\ {d \in DocIds : <<w, d>> \in pass1} = {0}
       /\ BufferedDocs(buffered, w) = {0, 1}

\* C3: flush_barrels called with an empty buffer changes no barrel file and
\* creates none.
C3_FlushIdempotence ==
  (op = "flush" /\ buffered = <<>>) =>
    /\ files = before
    /\ barrels_buffer = <<>>
    /\ ~raised

\* a second flush right after a successful one, with a barrel file still missing
C3_Witness ==
  /\ op = "flush"
  /\ buffered = <<>>
  /\ phase = 1
  /\ \E b \in BarrelIds : files[b].kind = "ok"
  /\ \E b \in BarrelIds : files[b].kind = "missing"

\* C4: a doc_id in the persisted posting list of a word_id is still in it
\* after every later flush_barrels.
C4_PersistedNeverLost ==
  op = "flush" => \A w \in WordIds : DocsOf(before, w) \subseteq DocsOf(files, w)

\* C8: when a write fails during flush_barrels the error reaches the caller
\* and the buffer is as it was; a barrel leaves the buffer only with its file
\* written and holding its postings.
C8_FailedFlushKeepsBuffer ==
  op = "flush" =>
    /\ fault # NoFault => (raised /\ barrels_buffer = buffered)
    /\ \A b \in BufferKeys(buffered) \ BufferKeys(barrels_buffer) :
         /\ files[b].kind = "ok"
         /\ \A w \in DOMAIN NewDataOf(buffered, b) :
              /\ w \in DOMAIN files[b].data
              /\ Range(NewDataOf(buffered, b)[w]) \subseteq Range(files[b].data[w])

\* the write of the second of two buffered barrels failed
C8_Witness ==
  /\ op = "flush"
  /\ raised
  /\ Len(buffered) = 2
  /\ fault.barrel = buffered[2].barrel_id
  /\ barrels_buffer = buffered

\* C9: load_barrel returns {} for a missing or undeserializable file and
\* get_documents_for_word returns [] for a missing or corrupt barrel or an
\* absent word_id; neither raises nor changes the buffer or a file.
C9_LookupsNeverFail ==
  /\ op = "load" =>
       /\ ~raised
       /\ before[arg].kind # "ok" => ret = EmptyMap
       /\ before[arg].kind = "ok" => ret = before[arg].data
       /\ files = before /\ barrels_buffer = buffered
  /\ op = "get" =>
       LET file == before[arg \div barrel_size]
       IN /\ ~raised
          /\ (file.kind # "ok" \/ arg \notin DOMAIN file.data) => ret = <<>>
          /\ (file.kind = "ok" /\ arg \in DOMAIN file.data) => ret = file.data[arg]
          /\ files = before /\ barrels_buffer = buffered

\* a lookup of a word whose barrel file is corrupt, with postings pending
C9_Witness ==
  /\ op = "get"
  /\ files[arg \div barrel_size].kind = "corrupt"
  /\ barrels_buffer # <<>>
  /\ ret = <<>>

\* C10: a flush whose writes succeed does not abort on a missing or corrupt
\* barrel file; that barrel's file then holds exactly the deduplicated
\* buffered postings, and the other buffered barrels are merged as usual.
C10_UnreadableBarrelIsEmpty ==
  (op = "flush" /\ fault = NoFault) =>
    /\ ~raised
    /\ \A b \in BufferKeys(buffered) :
         LET new_data == NewDataOf(buffered, b)
         IN /\ files[b].kind = "ok"
            /\ \A w \in DOMAIN files[b].data : NoDuplicates(files[b].data[w])
            /\ before[b].kind # "ok" =>
                 /\ DOMAIN files[b].data = DOMAIN new_data
                 /\ \A w \in DOMAIN new_data :
                      Range(files[b].data[w]) = Range(new_data[w])
            /\ before[b].kind = "ok" =>
                 \A w \in WordIds :
                   DocsOf(files, w) = DocsOf(before, w) \cup BufferedDocs(buffered, w)

\* a flush of two barrels, one with a corrupt file and one with a good file
C10_Witness ==
  /\ op = "flush"
  /\ fault = NoFault
  /\ \E b, c \in BufferKeys(buffered) :
       /\ before[b].kind = "corrupt"
       /\ before[c].kind = "ok"
       /\ files[b].kind = "ok"

\* the distinct tokens of a document collection
TokensOf(docs) == UNION {Range(docs[i].tokens) : i \in DOMAIN docs}

\* lex numbers the words of T by 0..N-1 in increasing string order
DenseSortedIds(lex, T) ==
  /\ DOMAIN lex = T
  /\ {lex[w] : w \in T} = 0 .. Cardinality(T) - 1
  /\ \A v, w \in T : StrLess(v, w) => lex[v] < lex[w]
  /\ \A v, w \in T : lex[v] = lex[w] => v = w

\* C5: build_from_documents on a fresh LexiconBuilder returns ids 0..N-1 for
\* the N distinct tokens, none shared, increasing with the order of the
\* words; the mapping is determined by the set of tokens alone.
C5_FreshLexicon ==
  (lop = "lexicon" /\ fresh) =>
    /\ DenseSortedIds(lexicon, TokensOf(documents))
    /\ next_word_id = Cardinality(TokensOf(documents))
    /\ lexicon = [w \in TokensOf(documents) |->
                    Cardinality({v \in TokensOf(documents) : StrLess(v, w)})]

\* a fresh build of a document listing "b" before "ab"
C5_Witness ==
  /\ lop = "lexicon"
  /\ fresh
  /\ \E i \in DOMAIN documents : documents[i].tokens = <<<<2>>, <<1, 2>>>>

\* C6: build_from_documents on a builder that already holds a lexicon yields
\* ids 0..N-1 for the N distinct tokens of the new input and nothing else.
C6_FullRebuild ==
  lop = "lexicon" => DenseSortedIds(lexicon, TokensOf(documents))

\* the k-th position (from 1) of tokens that holds a word of lex
KeptPosition(lex, tokens, k) ==
  CHOOSE j \in DOMAIN tokens :
    /\ tokens[j] \in DOMAIN lex
    /\ Cardinality({i \in 1 .. j : tokens[i] \in DOMAIN lex}) = k

\* C7: each forward-index entry is the document's token sequence mapped
\* through the lexicon in the original order, tokens absent from the lexicon
\* skipped and repeated tokens kept.
C7_ForwardEntries ==
  lop = "forward" =>
    /\ Len(forward_index) = Len(documents)
    /\ \A i \in DOMAIN documents :
         LET tokens == documents[i].tokens
             word_ids == forward_index[i].word_ids
         IN /\ forward_index[i].doc_id = documents[i].doc_id
            /\ Len(word_ids) = Cardinality({j \in DOMAIN tokens : tokens[j] \in DOMAIN lexicon})
            /\ \A k \in DOMAIN word_ids :
                 word_ids[k] = lexicon[tokens[KeptPosition(lexicon, tokens, k)]]

\* a document whose first token is not in the lexicon and whose second is
C7_Witness ==
  /\ lop = "forward"
  /\ \E i \in DOMAIN documents :
       /\ Len(documents[i].tokens) = 2
       /\ documents[i].tokens[1] \notin DOMAIN lexicon
       /\ documents[i].tokens[2] \in DOMAIN lexicon
       /\ Len(forward_index[i].word_ids) = 1

\* how often word_id occurs in the entry of doc_id in the forward index fi
Occurrences(fi, word_id, doc_id) ==
  Cardinality({<<i, j>> \in (DOMAIN fi) \X (1 .. MaxBuffered) :
                 /\ fi[i].doc_id = doc_id
                 /\ j \in DOMAIN fi[i].word_ids
                 /\ fi[i].word_ids[j] = word_id})

\* C11: build_from_forward_index makes one add_to_barrel(word_id, doc_id) for
\* every occurrence in the forward index and no flush before the last of
\* them; when it has returned the buffer is empty and every posting it added
\* is in the barrel files.
C11_BuildAddsThenFlushes ==
  /\ \A i, j \in DOMAIN trace :
       (trace[i].call = "flush" /\ trace[j].call = "add") => j < i
  /\ (op = "build" /\ build_pc = "returned") =>
       /\ barrels_buffer = <<>>
       /\ trace # <<>> /\ trace[Len(trace)].call = "flush"
       /\ \A w \in WordIds, d \in DocIds :
            /\ Cardinality({k \in DOMAIN trace : trace[k] = AddCall(w, d)})
                 = Occurrences(build_fi, w, d)
            /\ Occurrences(build_fi, w, d) > 0 => d \in DocsOf(files, w)

\* a build of two documents has returned
C11_Witness ==
  /\ op = "build"
  /\ build_pc = "returned"
  /\ Len(build_fi) = 2
  /\ \A i \in DOMAIN build_fi : build_fi[i].word_ids # <<>>

\* word_id lies in the range of barrel b
InRange(b, word_id) == b * barrel_size <= word_id /\ word_id < (b + 1) * barrel_size

\* C12: get_barrel_id(word_id) is the floor of word_id / barrel_size, does not
\* decrease when word_id grows, and changes neither buffer nor files; after a
\* build a word_id with postings is in the file of barrel word_id // barrel_size
\* and in no other.
C12_BarrelIdIsFloor ==
  /\ op = "barrel_id" =>
       /\ InRange(ret, arg)
       /\ \A v \in 0 .. arg : get_barrel_id(v) <= ret
       /\ files = before /\ barrels_buffer = buffered
  /\ (op = "build" /\ ~raised) =>
       \A w \in WordIds, b \in BarrelIds :
         /\ (InRange(b, w) /\ \E d \in DocIds : Occurrences(forward_index, w, d) > 0)
              => (files[b].kind = "ok" /\ w \in DOMAIN files[b].data)
         /\ (files[b].kind = "ok" /\ w \in DOMAIN files[b].data) => InRange(b, w)

\* get_barrel_id of the last word id of barrel 1, asked after a build filled
\* the file of that barrel
C12_Witness ==
  /\ op = "barrel_id"
  /\ arg = 2 * barrel_size - 1
  /\ ret = 1
  /\ files[1].kind = "ok"

\* the list the buffer buf holds for word_id in barrel b, [] when it holds none
EntryOf(buf, b, word_id) ==
  IF b \in BufferKeys(buf) /\ word_id \in DOMAIN NewDataOf(buf, b)
  THEN NewDataOf(buf, b)[word_id]
  ELSE <<>>

\* C15: add_to_barrel(word_id, doc_id) appends doc_id to the buffer entry of
\* (get_barrel_id(word_id), word_id), whether or not the entry holds it
\* already; every other entry, the order of the buffered barrels, every barrel
\* file and so every result of get_documents_for_word stay as they were.
C15_AddOnlyAppends ==
  op = "add" =>
    LET word_id == arg[1]
        doc_id == arg[2]
    IN /\ EntryOf(barrels_buffer, get_barrel_id(word_id), word_id)
            = Append(EntryOf(buffered, get_barrel_id(word_id), word_id), doc_id)
       /\ \A b \in BarrelIds, w \in WordIds :
            (b # get_barrel_id(word_id) \/ w # word_id)
              => EntryOf(barrels_buffer, b, w) = EntryOf(buffered, b, w)
       /\ \A i \in DOMAIN buffered : barrels_buffer[i].barrel_id = buffered[i].barrel_id
       /\ BufferKeys(barrels_buffer) = BufferKeys(buffered) \cup {get_barrel_id(word_id)}
       /\ files = before
       /\ \A w \in WordIds :
            get_documents_for_word(files, w) = get_documents_for_word(before, w)

\* a doc_id added a second time to its entry, with a barrel file on disk
C15_Witness ==
  /\ op = "add"
  /\ EntryOf(buffered, get_barrel_id(arg[1]), arg[1]) = <<arg[2]>>
  /\ \E b \in BarrelIds : files[b].kind = "ok"

\* C16: on one BarrelManager started on a directory without readable barrel
\* files, every word_id in the buffer entry or in the file of barrel b lies in
\* b * barrel_size .. (b + 1) * barrel_size - 1, and no word_id is in two barrels.
C16_RangePartition ==
  /\ \A i \in DOMAIN barrels_buffer :
       \A w \in DOMAIN barrels_buffer[i].new_data :
         InRange(barrels_buffer[i].barrel_id, w)
  /\ \A b \in BarrelIds :
       files[b].kind = "ok" => \A w \in DOMAIN files[b].data : InRange(b, w)
  /\ \A w \in WordIds :
       Cardinality({b \in BarrelIds :
                      \/ EntryOf(barrels_buffer, b, w) # <<>>
                      \/ (files[b].kind = "ok" /\ w \in DOMAIN files[b].data)}) <= 1

\* both barrels have a file and postings buffered
C16_Witness ==
  /\ \A b \in BarrelIds : files[b].kind = "ok" /\ DOMAIN files[b].data # {}
  /\ BufferKeys(barrels_buffer) = BarrelIds

\* the barrel files fs and gs hold the same posting sets
SameContents(fs, gs) ==
  \A b \in BarrelIds :
    /\ fs[b].kind = gs[b].kind
    /\ DOMAIN fs[b].data = DOMAIN gs[b].data
    /\ \A w \in DOMAIN fs[b].data : Range(fs[b].data[w]) = Range(gs[b].data[w])

\* C17: when flush_barrels failed at one barrel after it had written others,
\* and a later flush_barrels succeeds with no add_to_barrel in between, the
\* barrel files are what the first flush would have left had it succeeded,
\* no doc_id twice in a list, and the buffer is empty.
C17_RetryConverges ==
  (op = "flush" /\ ~raised /\ goal.set) =>
    /\ SameContents(files, goal.files)
    /\ \A b \in BarrelIds : \A w \in DOMAIN files[b].data : NoDuplicates(files[b].data[w])
    /\ barrels_buffer = <<>>

\* C13: when the flushes of two BarrelManagers over one directory have all
\* returned, every posting they were given is in the barrel files, however
\* their steps were interleaved.
C13_NoLostUpdate ==
  (\A m \in Managers : mgr[m].pc = "idle") =>
    \A p \in flushed : p[2] \in DocsOf(files, p[1])

\* the managers whose flush is between open and the end of the dump of the
\* file of barrel b
WritersOf(b) == {m \in Managers : mgr[m].pc = "dump" /\ BarrelOf(m) = b}

\* C14: a get_documents_for_word that runs while a flush rewrites the barrel
\* returns the word's list of the last completely written file or of the
\* merged data being written, never that of a truncated file.
C14_ReadersSeeWholeFiles ==
  op = "get" =>
    \/ ret = get_documents_for_word(stable, arg).value
    \/ \E m \in WritersOf(get_barrel_id(arg)) :
         ret = (IF arg \in DOMAIN mgr[m].current_data THEN mgr[m].current_data[arg] ELSE <<>>)

====
